---- MODULE Spec2Model ----
(***************************************************************************)
(* Model of cloudeventexporter/exporter.go: the filter-transform-deliver   *)
(* pipeline of the cloud-event exporter.                                   *)
(*                                                                         *)
(* A Go string is modelled as a sequence of atoms; an atom is a TLA+       *)
(* string standing for a run of characters without any character the code  *)
(* treats specially ("|", "*", a quote, white space), or for one such      *)
(* character alone.  "Created|Deleted" is <<"Created", "|", "Deleted">>.   *)
(*                                                                         *)
(* A batch (plog.Logs) is a sequence of resource groups, a resource group  *)
(* a sequence of scope groups, a scope group a sequence of log records, a  *)
(* log record [attrs, body] with attrs a function from the attribute names *)
(* the record carries to their values.                                     *)
(***************************************************************************)
EXTENDS Integers, Sequences, FiniteSets, TLC

\* ------------------------------------------------------------ constants

CHAN_SZ == 2

FETCH_ATTR == TRUE

RETRY_ENABLED == FALSE

ATTR_EVENT_COUNT == "k8s.event.count"

ATTR_EVENT_NAME == "k8s.event.name"

ATTR_EVENT_NS == "k8s.namespace.name"

ATTR_EVENT_REASON == "k8s.event.reason"

ATTR_EVENT_START_TIME == "k8s.event.start_time"

ATTR_EVENT_UID == "k8s.event.uid"

HEADER_CE_ID == "Ce-Id"

HEADER_CE_TYPE == "Ce-Type"

HEADER_CE_SOURCE == "Ce-Source"

HEADER_CE_SPECVERSION == "Ce-Specversion"

HEADER_CONTENT_TYPE == "Content-Type"

HEADER_RETRY_AFTER == "Retry-After"

CONTENT_TYPE == <<"application/json">>

\* The six attributes pushLogs reads (lines 197-202).
RequiredAttrs ==
  {ATTR_EVENT_COUNT, ATTR_EVENT_NAME, ATTR_EVENT_NS, ATTR_EVENT_UID,
   ATTR_EVENT_REASON, ATTR_EVENT_START_TIME}

\* ------------------------------------------------------------ bounds

\* Number of pushLogs calls of a run; they may overlap in time.
MaxCalls == 2

\* Number of log records the batches of a run hold in all.
MaxRecords == 4

Calls == 1..MaxCalls

Workers == 1..CHAN_SZ

\* ------------------------------------------------------------ inputs

None == [none |-> TRUE]

\* A log record of the telemetry pipeline: every required attribute but
\* those of `missing`, with values made from `tag`.
Rec(tag, count, reason, missing) ==
  [attrs |-> [a \in RequiredAttrs \ missing |->
                CASE a = ATTR_EVENT_COUNT      -> count
                  [] a = ATTR_EVENT_NAME       -> <<"pod-", tag>>
                  [] a = ATTR_EVENT_NS         -> <<"ns-", tag>>
                  [] a = ATTR_EVENT_UID        -> <<"uid-", tag>>
                  [] a = ATTR_EVENT_REASON     -> reason
                  [] a = ATTR_EVENT_START_TIME -> <<"t-", tag>>],
   body  |-> <<"msg-", tag>>]

rCreated == Rec("a", 1, <<"Created">>, {})

rScaled == Rec("b", 2, <<"Scaled">>, {})

rDeleted == Rec("c", 3, <<"Deleted">>, {})

rNoReason == Rec("d", 4, <<"Created">>, {ATTR_EVENT_REASON})

rNoNameUid == Rec("e", 5, <<"Created">>, {ATTR_EVENT_NAME, ATTR_EVENT_UID})

rNoCount == Rec("f", 6, <<"Deleted">>, {ATTR_EVENT_COUNT})

\* Batches of the concurrent runs: the Created/Scaled/Deleted scenario, a batch
\* whose second scope group starts with a malformed record, and one record.
Batches ==
  << << << <<rCreated, rScaled, rDeleted>> >> >>,
     << << <<rCreated>>, <<rNoNameUid, rDeleted>> >> >>,
     << << <<rScaled>> >> >> >>

\* One record per subset of missing attributes, with two reasons.
OneRecordBatches ==
  { << << << Rec("a", 1, r, m) >> >> >> :
      r \in {<<"Created">>, <<"Scaled">>}, m \in SUBSET RequiredAttrs }

RecordPool == {rCreated, rScaled, rNoReason, rNoNameUid, rNoCount}

\* Two records in one scope group.
PairBatches == { << << <<r1, r2>> >> >> : r1, r2 \in RecordPool }

\* Batches with empty groups and several groups.
ShapeBatches ==
  { <<>>,
    << <<>> >>,
    << << <<>> >> >>,
    << << <<rScaled>>, <<rCreated>> >>, << <<rScaled>> >>, << <<>>, <<rDeleted>> >> >>,
    << << <<>>, <<rCreated>> >>, <<>>, << <<rNoReason>>, <<rScaled>> >> >>,
    << << <<rScaled, rNoCount>> >>, << <<rDeleted>>, <<rNoNameUid>> >> >> }

WideBatches == OneRecordBatches \cup PairBatches \cup ShapeBatches

\* The Ce section of a configuration: the spec version (character by
\* character), the prefix of the event type, the event source.
CeConf(specVersion, appendType, source) ==
  [SpecVersion |-> specVersion, AppendType |-> appendType, Source |-> source]

\* A configuration: whether conf.Validate() accepts it, the filter expression,
\* whether http.NewRequest accepts the endpoint, the Ce section.
FullConf(valid, filter, endpointOk, ceConf) ==
  [Valid |-> valid, Filter |-> filter, EndpointOk |-> endpointOk, Ce |-> ceConf]

\* A valid configuration of spec version 1.0.
Conf(filter, endpointOk) ==
  FullConf(TRUE, filter, endpointOk,
           CeConf(<<"1", ".", "0">>, <<"com.example.k8s">>, <<"collector">>))

Configs ==
  { Conf(<<"*">>, TRUE),
    Conf(<<"Created", "|", "Deleted">>, TRUE),
    Conf(<<"*">>, FALSE) }

WideConfigs ==
  { Conf(<<"*">>, TRUE),
    Conf(<<"Created", "|", "Deleted">>, TRUE),
    Conf(<<"Scaled">>, TRUE),
    Conf(<<"*", "|", "Created">>, TRUE),
    Conf(<<>>, TRUE) }

\* Configurations of the exporters of one process: spec versions 1.0 and 2.0,
\* one with neither a filter nor a spec version, one conf.Validate() refuses.
ProcConfigs ==
  { Conf(<<"*">>, TRUE),
    FullConf(TRUE, <<"Created", "|", "Deleted">>, TRUE,
             CeConf(<<"2", ".", "0">>, <<"com.example.k8s">>, <<"collector">>)),
    FullConf(TRUE, <<>>, TRUE, CeConf(<<>>, <<"com.example.k8s">>, <<"collector">>)),
    FullConf(FALSE, <<"*">>, TRUE,
             CeConf(<<"1", ".", "0">>, <<"com.example.k8s">>, <<"collector">>)) }

\* Records whose reason has white space and whose message has a quote, a
\* backslash or a line break.
rBackOff ==
  [Rec("g", 1, <<"Back", " ", "Off">>, {}) EXCEPT
     !.body = <<"say ", "\"", "hi", "\"">>]

rFailedMount ==
  [Rec("h", 2, <<"Failed", "\t", "Mount">>, {}) EXCEPT
     !.body = <<"C:", "\\">>]

rTwoLines ==
  [Rec("i", 3, <<"Created">>, {}) EXCEPT !.body = <<"one", "\n", "two">>]

ProcBatches ==
  { << << <<rBackOff>> >> >>,
    << << <<rFailedMount>> >> >>,
    << << <<rCreated, rTwoLines>> >> >> }

\* HTTP outcomes of client.Do: a transport error, or a status with the
\* Retry-After header ("" when absent).
Resp(code, retryAfter) == [err |-> FALSE, code |-> code, retryAfter |-> retryAfter]

TransportError == [err |-> TRUE, code |-> 0, retryAfter |-> ""]

Responses ==
  { TransportError, Resp(200, ""), Resp(201, ""), Resp(299, ""), Resp(300, ""),
    Resp(429, ""), Resp(503, "5") }

\* ------------------------------------------------------------ helpers

\* strings.Split(s, sep) for a one-character separator.
RECURSIVE Split(_, _)
Split(s, sep) ==
  IF \A i \in 1..Len(s) : s[i] # sep
  THEN <<s>>
  ELSE LET i == CHOOSE x \in 1..Len(s) : s[x] = sep /\ \A y \in 1..(x - 1) : s[y] # sep
       IN  <<SubSeq(s, 1, i - 1)>> \o Split(SubSeq(s, i + 1, Len(s)), sep)

\* The package variable filters after newExporter(cf), `old` before it.
NewFilters(cf, old) ==
  IF Len(cf.Filter) > 0 THEN Split(cf.Filter, "|") ELSE old

\* The package variable filterAllowAll after newExporter(cf), `old` before it.
NewFilterAllowAll(cf, old) ==
  IF Len(cf.Filter) > 0
  THEN LET fs == Split(cf.Filter, "|")
       IN  IF Len(fs) = 0 THEN old
           ELSE IF Len(fs) = 1 /\ fs[1] = <<"*">> THEN TRUE ELSE old
  ELSE old

\* Whether newExporter(cf) assigns the error of lines 102-106 to its local err
\* (filtersLen == 0).  The return of line 116-123 does not use err.
FilterErr(cf) == Len(cf.Filter) > 0 /\ Len(Split(cf.Filter, "|")) = 0

\* typeVersion after newExporter(cf), `old` before it (lines 93-95).
NewTypeVersion(cf, old) ==
  IF Len(cf.Ce.SpecVersion) > 0 THEN <<"v", cf.Ce.SpecVersion[1]>> ELSE old

\* attrMap.Get(key): the second result.
Has(lr, key) == key \in DOMAIN lr.attrs

VARIABLES
  conf,            \* the exporter's configuration
  filters,         \* package variable: the allowed reasons
  filterAllowAll,  \* package variable: let every record pass
  typeVersion,     \* package variable: "v" + the first of the spec version
  newest,          \* the configuration of the exporter constructed last
  newRet,          \* what the last call of newExporter was given and returned
  batch,           \* batch[c]: the batch call c is given (never changed)
  ld,              \* ld[c]: the batch as call c has it (filtered in place)
  pc,              \* pc[c]: where call c is
  k,               \* k[c]: the record of the iteration order call c is at
  ce,              \* ce[c]: call c's local variable ce; the queue holds &ce
  ret,             \* ret[c]: what call c returned
  room,            \* room[c]: free slots + idle workers when call c began,
                   \* counted up to the number of records c has to go through
  sawDeq,          \* sawDeq[c]: a worker has received an entry since c began
                   \* (kept for a call with more records than room[c])
  hist,            \* hist[c][n]: receives and requests of c's n-th entry
  q,               \* ceChan's buffer: pointers to a call's ce
  closed,          \* ceChan is closed
  started,         \* "no", "yes" (workers launched), "failed" (ToClient failed)
  panic,           \* "none", or the runtime panic that ended the process
  wk               \* wk[w]: worker w (a goroutine running exportMessage)

vars ==
  <<conf, filters, filterAllowAll, typeVersion, newest, newRet, batch, ld,
    pc, k, ce, ret, room, sawDeq, hist, q, closed, started, panic, wk>>

\* The reason filter's callback (lines 157-172): TRUE removes the record.
RemoveRecord(lr) ==
  IF ~Has(lr, ATTR_EVENT_REASON)
  THEN FALSE
  ELSE LET reason == lr.attrs[ATTR_EVENT_REASON]
           reasonFound == \E i \in 1..Len(filters) : filters[i] = reason
       IN  ~reasonFound

\* sl.LogRecords().RemoveIf(...) (line 157).
FilterRecords(records) == SelectSeq(records, LAMBDA lr : ~RemoveRecord(lr))

\* Mutant of FilterScopes: a scope group left empty stays.
FilterScopesKeepsEmpty(scopes) ==
  [j \in DOMAIN scopes |-> FilterRecords(scopes[j])]

\* rl.ScopeLogs().RemoveIf(...) (lines 156-174): each scope group is filtered,
\* and removed when it is left empty.
FilterScopes(scopes) ==
  SelectSeq([j \in DOMAIN scopes |-> FilterRecords(scopes[j])],
            LAMBDA sl : Len(sl) # 0)

\* ld.ResourceLogs().RemoveIf(...) (lines 155-176).
FilterResources(resources) ==
  SelectSeq([i \in DOMAIN resources |-> FilterScopes(resources[i])],
            LAMBDA rl : Len(rl) # 0)

\* Mutant of FilterBatch: the filter is applied also in allow-all mode.
FilterBatchAlways(b) == FilterResources(b)

\* The filtering step of pushLogs (lines 154-177).
FilterBatch(b) == IF ~filterAllowAll THEN FilterResources(b) ELSE b

RECURSIVE Concat(_)
Concat(ss) == IF ss = <<>> THEN <<>> ELSE Head(ss) \o Concat(Tail(ss))

\* The records of a batch in the order the loops of lines 180-187 reach them.
Flatten(b) == Concat([i \in DOMAIN b |-> Concat(b[i])])

\* anyError of line 204.
AnyError(lr) ==
  ~(Has(lr, ATTR_EVENT_REASON) /\ Has(lr, ATTR_EVENT_START_TIME)
      /\ Has(lr, ATTR_EVENT_NAME) /\ Has(lr, ATTR_EVENT_UID)
      /\ Has(lr, ATTR_EVENT_NS) /\ Has(lr, ATTR_EVENT_COUNT))

Braced(attr) == <<"{", attr, "} ">>

\* Mutant of OverAllErrStr: the namespace is reported before the uid.
OverAllErrStrNsFirst(lr) ==
  LET s1 == IF ~Has(lr, ATTR_EVENT_REASON) THEN Braced(ATTR_EVENT_REASON) ELSE <<>>
      s2 == IF ~Has(lr, ATTR_EVENT_START_TIME) THEN s1 \o Braced(ATTR_EVENT_START_TIME) ELSE s1
      s3 == IF ~Has(lr, ATTR_EVENT_NAME) THEN s2 \o Braced(ATTR_EVENT_NAME) ELSE s2
      s4 == IF ~Has(lr, ATTR_EVENT_NS) THEN s3 \o Braced(ATTR_EVENT_NS) ELSE s3
      s5 == IF ~Has(lr, ATTR_EVENT_UID) THEN s4 \o Braced(ATTR_EVENT_UID) ELSE s4
      s6 == IF ~Has(lr, ATTR_EVENT_COUNT) THEN s5 \o Braced(ATTR_EVENT_COUNT) ELSE s5
  IN  s6

\* overAllErrStr of lines 207-231.
OverAllErrStr(lr) ==
  LET s1 == IF ~Has(lr, ATTR_EVENT_REASON) THEN Braced(ATTR_EVENT_REASON) ELSE <<>>
      s2 == IF ~Has(lr, ATTR_EVENT_START_TIME) THEN s1 \o Braced(ATTR_EVENT_START_TIME) ELSE s1
      s3 == IF ~Has(lr, ATTR_EVENT_NAME) THEN s2 \o Braced(ATTR_EVENT_NAME) ELSE s2
      s4 == IF ~Has(lr, ATTR_EVENT_UID) THEN s3 \o Braced(ATTR_EVENT_UID) ELSE s3
      s5 == IF ~Has(lr, ATTR_EVENT_NS) THEN s4 \o Braced(ATTR_EVENT_NS) ELSE s4
      s6 == IF ~Has(lr, ATTR_EVENT_COUNT) THEN s5 \o Braced(ATTR_EVENT_COUNT) ELSE s5
  IN  s6

\* The error of line 233.
MissingError(lr) ==
  [err |-> TRUE,
   text |-> <<"Couldn't find ">> \o OverAllErrStr(lr) \o <<"attributes in the log">>]

Nil == [err |-> FALSE, text |-> <<>>]

\* The cloudeventdata of lines 236-244.
EventOf(lr) ==
  [count     |-> lr.attrs[ATTR_EVENT_COUNT],
   message   |-> lr.body,
   name      |-> lr.attrs[ATTR_EVENT_NAME],
   namespace |-> lr.attrs[ATTR_EVENT_NS],
   reason    |-> lr.attrs[ATTR_EVENT_REASON],
   startTime |-> lr.attrs[ATTR_EVENT_START_TIME],
   uid       |-> lr.attrs[ATTR_EVENT_UID]]

\* var ce cloudeventdata (line 151): Go's zero value.
ZeroEvent ==
  [count |-> 0, message |-> <<>>, name |-> <<>>, namespace |-> <<>>,
   reason |-> <<>>, startTime |-> <<>>, uid |-> <<>>]

\* A worker waiting in `range e.ceChan`.
IdleWorker(p) ==
  [pc |-> p, cur |-> None, req |-> None, http |-> None, res |-> None,
   logs |-> 0, retry |-> None]

\* What newExporter returns for a configuration conf.Validate() accepts
\* (line 116-123): the exporter and a nil error.  The err of line 102 is not
\* part of what is returned.
Constructed(cf) == [cf |-> cf, exporter |-> TRUE, err |-> FALSE]

\* What newExporter returns when conf.Validate() fails (line 90).
Rejected(cf) == [cf |-> cf, exporter |-> FALSE, err |-> TRUE]

\* ------------------------------------------------------------ Init

InitWith(cf, input) ==
  /\ conf = cf
  /\ filters = NewFilters(cf, <<>>)
  /\ filterAllowAll = NewFilterAllowAll(cf, FALSE)
  /\ typeVersion = NewTypeVersion(cf, <<>>)
  /\ newest = cf
  /\ newRet = Constructed(cf)
  /\ batch = input
  /\ ld = input
  /\ pc = [c \in Calls |-> "idle"]
  /\ k = [c \in Calls |-> 0]
  /\ ce = [c \in Calls |-> ZeroEvent]
  /\ ret = [c \in Calls |-> None]
  /\ room = [c \in Calls |-> 0]
  /\ sawDeq = [c \in Calls |-> FALSE]
  /\ hist = [c \in Calls |-> <<>>]
  /\ q = <<>>
  /\ closed = FALSE
  /\ started = "no"
  /\ panic = "none"
  /\ wk = [w \in Workers |-> IdleWorker("off")]

\* The number of log records of the batches `input` gives the calls c..MaxCalls.
RECURSIVE RecordsFrom(_, _)
RecordsFrom(input, c) ==
  IF c > MaxCalls THEN 0
  ELSE Len(Flatten(Batches[input[c]])) + RecordsFrom(input, c + 1)

\* After newExporter: each call is given a batch of Batches, a later call's
\* batch not before an earlier one's in Batches (the calls are interchangeable).
Init ==
  \E cf \in Configs :
    \E input \in [Calls -> 1..Len(Batches)] :
      /\ \A c \in Calls : c > 1 => input[c - 1] <= input[c]
      /\ RecordsFrom(input, 1) <= MaxRecords
      /\ InitWith(cf, [c \in Calls |-> Batches[input[c]]])

\* After newExporter, and after every call but the first has returned from an
\* empty batch: the first call is given any batch of WideBatches.
InitWide ==
  \E cf \in WideConfigs :
    \E b \in WideBatches :
      /\ conf = cf
      /\ filters = NewFilters(cf, <<>>)
      /\ filterAllowAll = NewFilterAllowAll(cf, FALSE)
      /\ typeVersion = NewTypeVersion(cf, <<>>)
      /\ newest = cf
      /\ newRet = Constructed(cf)
      /\ batch = [c \in Calls |-> IF c = 1 THEN b ELSE <<>>]
      /\ ld = batch
      /\ pc = [c \in Calls |-> IF c = 1 THEN "idle" ELSE "done"]
      /\ k = [c \in Calls |-> IF c = 1 THEN 0 ELSE 1]
      /\ ce = [c \in Calls |-> ZeroEvent]
      /\ ret = [c \in Calls |-> IF c = 1 THEN None ELSE Nil]
      /\ room = [c \in Calls |-> 0]
      /\ sawDeq = [c \in Calls |-> FALSE]
      /\ hist = [c \in Calls |-> <<>>]
      /\ q = <<>>
      /\ closed = FALSE
      /\ started = "no"
      /\ panic = "none"
      /\ wk = [w \in Workers |-> IdleWorker("off")]

\* The process before any exporter is constructed: the package variables have
\* Go's zero values.  The first call is given a batch of ProcBatches, every
\* other call an empty batch.
InitProc ==
  \E b \in ProcBatches :
    /\ conf = None
    /\ filters = <<>>
    /\ filterAllowAll = FALSE
    /\ typeVersion = <<>>
    /\ newest = None
    /\ newRet = None
    /\ batch = [c \in Calls |-> IF c = 1 THEN b ELSE <<>>]
    /\ ld = batch
    /\ pc = [c \in Calls |-> "idle"]
    /\ k = [c \in Calls |-> 0]
    /\ ce = [c \in Calls |-> ZeroEvent]
    /\ ret = [c \in Calls |-> None]
    /\ room = [c \in Calls |-> 0]
    /\ sawDeq = [c \in Calls |-> FALSE]
    /\ hist = [c \in Calls |-> <<>>]
    /\ q = <<>>
    /\ closed = FALSE
    /\ started = "no"
    /\ panic = "none"
    /\ wk = [w \in Workers |-> IdleWorker("off")]

\* ------------------------------------------------------------ lifecycle

\* newExporter(cf) (lines 85-124).  The exporters of a process are constructed
\* before any is started.  conf is the configuration of the exporter whose
\* run the other actions are: the one constructed now, or one constructed
\* before.
NewExporter(cf) ==
  /\ panic = "none"
  /\ started = "no"
  /\ ~closed
  /\ \A c \in Calls : pc[c] = "idle"
  /\ IF ~cf.Valid
     THEN /\ newRet' = Rejected(cf)
          /\ UNCHANGED <<conf, filters, filterAllowAll, typeVersion, newest>>
     ELSE /\ typeVersion' = NewTypeVersion(cf, typeVersion)
          /\ filters' = NewFilters(cf, filters)
          /\ filterAllowAll' = NewFilterAllowAll(cf, filterAllowAll)
          /\ newest' = cf
          /\ newRet' = Constructed(cf)
          /\ \E keep \in BOOLEAN :
               conf' = IF keep /\ conf # None THEN conf ELSE cf
  /\ UNCHANGED <<batch, ld, pc, k, ce, ret, room, sawDeq, hist, q, closed,
                 started, panic, wk>>

\* start (lines 128-140): ToClient fails, or CHAN_SZ goroutines are launched.
Start ==
  /\ panic = "none"
  /\ started = "no"
  /\ \E clientOk \in BOOLEAN :
       IF clientOk
       THEN /\ started' = "yes"
            /\ wk' = [w \in Workers |-> IdleWorker("recv")]
       ELSE /\ started' = "failed"
            /\ wk' = wk
  /\ UNCHANGED <<conf, filters, filterAllowAll, typeVersion, newest, newRet,
                 batch, ld, pc, k, ce, ret,
                 room, sawDeq, hist, q, closed, panic>>

\* shutdown (lines 142-146): close(e.ceChan); closing a closed channel panics.
Shutdown ==
  /\ panic = "none"
  /\ IF closed
     THEN /\ panic' = "close of closed channel"
          /\ closed' = closed
     ELSE /\ closed' = TRUE
          /\ panic' = panic
  /\ UNCHANGED <<conf, filters, filterAllowAll, typeVersion, newest, newRet,
                 batch, ld, pc, k, ce, ret,
                 room, sawDeq, hist, q, started, wk>>

\* ------------------------------------------------------------ pushLogs

Min(a, b) == IF a <= b THEN a ELSE b

\* Workers blocked in the receive of line 269.
IdleWorkers == {w \in Workers : wk[w].pc = "recv"}

\* pushLogs is entered with batch[c]; the filtering step (lines 148-177).
PushLogsEnter(c) ==
  /\ panic = "none"
  /\ pc[c] = "idle"
  /\ ld' = [ld EXCEPT ![c] = FilterBatch(ld[c])]
  /\ k' = [k EXCEPT ![c] = 1]
  /\ pc' = [pc EXCEPT ![c] = "loop"]
  /\ room' = [room EXCEPT ![c] =
                Min((CHAN_SZ - Len(q)) + Cardinality(IdleWorkers),
                    Len(Flatten(FilterBatch(ld[c]))))]
  /\ sawDeq' = [sawDeq EXCEPT ![c] = FALSE]
  /\ UNCHANGED <<conf, filters, filterAllowAll, typeVersion, newest, newRet,
                 batch, ce, ret, hist, q,
                 closed, started, panic, wk>>

\* The else branch of line 245 (FETCH_ATTR = false).
TestEvent(lr) ==
  [count |-> 0, message |-> lr.body, name |-> <<"name">>, namespace |-> <<"ns">>,
   reason |-> <<"TestReason">>, startTime |-> <<>>, uid |-> <<"fhapohnea-afj-ajfa">>]

\* Mutant of PushLogsIter: a record that lacks an attribute is skipped
\* (continue instead of return).
PushLogsIterContinue(c) ==
  /\ panic = "none"
  /\ pc[c] = "loop"
  /\ LET records == Flatten(ld[c])
     IN  IF k[c] > Len(records)
         THEN /\ ret' = [ret EXCEPT ![c] = Nil]
              /\ pc' = [pc EXCEPT ![c] = "done"]
              /\ UNCHANGED <<ce, k>>
         ELSE IF FETCH_ATTR /\ AnyError(records[k[c]])
         THEN /\ k' = [k EXCEPT ![c] = k[c] + 1]
              /\ UNCHANGED <<ce, pc, ret>>
         ELSE /\ ce' = [ce EXCEPT ![c] = EventOf(records[k[c]])]
              /\ pc' = [pc EXCEPT ![c] = "send"]
              /\ UNCHANGED <<ret, k>>
  /\ UNCHANGED <<conf, filters, filterAllowAll, typeVersion, newest, newRet,
                 batch, ld, room, sawDeq,
                 hist, q, closed, started, panic, wk>>

\* Mutant of PushLogsIter: when the loops end, pushLogs returns an error if a
\* worker has just logged a delivery failure.
PushLogsIterSurfacesFailure(c) ==
  /\ panic = "none"
  /\ pc[c] = "loop"
  /\ LET records == Flatten(ld[c])
     IN  IF k[c] > Len(records)
         THEN /\ ret' = [ret EXCEPT ![c] =
                          IF \E w \in Workers : wk[w].logs > 0
                          THEN [err |-> TRUE, text |-> <<"error exporting items">>]
                          ELSE Nil]
              /\ pc' = [pc EXCEPT ![c] = "done"]
              /\ ce' = ce
         ELSE IF FETCH_ATTR /\ AnyError(records[k[c]])
         THEN /\ ret' = [ret EXCEPT ![c] = MissingError(records[k[c]])]
              /\ pc' = [pc EXCEPT ![c] = "done"]
              /\ ce' = ce
         ELSE /\ ce' = [ce EXCEPT ![c] = EventOf(records[k[c]])]
              /\ pc' = [pc EXCEPT ![c] = "send"]
              /\ ret' = ret
  /\ UNCHANGED <<conf, filters, filterAllowAll, typeVersion, newest, newRet,
                 batch, ld, k, room, sawDeq, hist, q, closed, started, panic, wk>>

\* One pass of the loops of lines 180-257 up to the send: the loops end and
\* pushLogs returns nil, or the record lacks an attribute and pushLogs returns
\* the error, or ce is assigned.
PushLogsIter(c) ==
  /\ panic = "none"
  /\ pc[c] = "loop"
  /\ LET records == Flatten(ld[c])
     IN  IF k[c] > Len(records)
         THEN /\ ret' = [ret EXCEPT ![c] = Nil]
              /\ pc' = [pc EXCEPT ![c] = "done"]
              /\ ce' = ce
         ELSE IF FETCH_ATTR /\ AnyError(records[k[c]])
         THEN /\ ret' = [ret EXCEPT ![c] = MissingError(records[k[c]])]
              /\ pc' = [pc EXCEPT ![c] = "done"]
              /\ ce' = ce
         ELSE /\ ce' = [ce EXCEPT ![c] = IF FETCH_ATTR THEN EventOf(records[k[c]])
                                          ELSE TestEvent(records[k[c]])]
              /\ pc' = [pc EXCEPT ![c] = "send"]
              /\ ret' = ret
  /\ UNCHANGED <<conf, filters, filterAllowAll, typeVersion, newest, newRet,
                 batch, ld, k, room, sawDeq,
                 hist, q, closed, started, panic, wk>>

\* Mutant of CanSend: the buffer takes one entry more than CHAN_SZ.
CanSendOneMore == Len(q) <= CHAN_SZ

\* A send on ceChan (make(chan, CHAN_SZ), line 121) proceeds when the buffer
\* has room.
CanSend == Len(q) < CHAN_SZ

\* e.ceChan <- &ce (line 260): the pointer to the call's ce is queued.
PushLogsSend(c) ==
  /\ panic = "none"
  /\ pc[c] = "send"
  /\ ~closed
  /\ CanSend
  /\ q' = Append(q, [ptr |-> c, n |-> k[c]])
  /\ hist' = [hist EXCEPT ![c] = Append(hist[c], [recv |-> 0, reqs |-> 0])]
  /\ k' = [k EXCEPT ![c] = k[c] + 1]
  /\ pc' = [pc EXCEPT ![c] = "loop"]
  /\ UNCHANGED <<conf, filters, filterAllowAll, typeVersion, newest, newRet,
                 batch, ld, ce, ret, room,
                 sawDeq, closed, started, panic, wk>>

\* e.ceChan <- &ce (line 260) on a closed channel: the runtime panics.
PushLogsSendPanic(c) ==
  /\ panic = "none"
  /\ pc[c] = "send"
  /\ closed
  /\ panic' = "send on closed channel"
  /\ pc' = [pc EXCEPT ![c] = "panicked"]
  /\ UNCHANGED <<conf, filters, filterAllowAll, typeVersion, newest, newRet,
                 batch, ld, k, ce, ret, room,
                 sawDeq, hist, q, closed, started, wk>>

\* ------------------------------------------------------------ exportMessage

\* Mutant of Dequeue: the receive leaves the head in the buffer.
DequeueKeepsHead(buf) == buf

\* What stays in the buffer after a receive.
Dequeue(buf) == Tail(buf)

\* for ce := range e.ceChan (line 269): the head of the buffer is received, or
\* the channel is closed and empty and the goroutine ends.
Recv(w) ==
  /\ panic = "none"
  /\ wk[w].pc = "recv"
  /\ \/ /\ Len(q) > 0
        /\ LET e == Head(q)
           IN  /\ wk' = [wk EXCEPT ![w] = [IdleWorker("build") EXCEPT !.cur = e]]
               /\ hist' = [hist EXCEPT ![e.ptr][e.n].recv = @ + 1]
        /\ q' = Dequeue(q)
        /\ sawDeq' = [c \in Calls |->
                        \/ sawDeq[c]
                        \/ /\ pc[c] \in {"loop", "send"}
                           /\ Len(Flatten(ld[c])) > room[c]]
     \/ /\ Len(q) = 0
        /\ closed
        /\ wk' = [wk EXCEPT ![w] = IdleWorker("exited")]
        /\ UNCHANGED <<hist, q, sawDeq>>
  /\ UNCHANGED <<conf, filters, filterAllowAll, typeVersion, newest, newRet,
                 batch, ld, pc, k, ce, ret,
                 room, closed, started, panic>>

Quote == "\""

Backslash == "\\"

\* strings.ReplaceAll(s, old, new) for a one-character old (line 271).
ReplaceAll(s, old, new) ==
  Concat([i \in DOMAIN s |-> IF s[i] = old THEN new ELSE <<s[i]>>])

\* fmt.Sprintf(CE_DATA_META_BODY, ...) (lines 31 and 274-281): %s is the
\* string as it is, %d the integer in decimal.
CE_DATA_META_BODY(reason, startTime, name, namespace, count, message) ==
  <<"{", Quote, "reason", Quote, ":", Quote>> \o reason
    \o <<Quote, ",", Quote, "start_time", Quote, ":", Quote>> \o startTime
    \o <<Quote, ",", Quote, "name", Quote, ":", Quote>> \o name
    \o <<Quote, ",", Quote, "namespace", Quote, ":", Quote>> \o namespace
    \o <<Quote, ",", Quote, "count", Quote, ":", ToString(count)>>
    \o <<",", Quote, "message", Quote, ":", Quote>> \o message
    \o <<Quote, "}">>

\* json_body of lines 271-281 for the cloudeventdata ev.
json_body(ev) ==
  LET msg == ReplaceAll(ev.message, Quote, <<Backslash, Quote>>)
  IN  CE_DATA_META_BODY(ev.reason, ev.startTime, ev.name, ev.namespace,
                        ev.count, msg)

\* unicode.IsSpace on the white-space characters of the inputs.
IsSpace(ch) == ch \in {" ", "\t", "\n", "\r", "\f"}

\* configureCeType (lines 335-351); typeVersion is the package variable.
configureCeType(pretext, reason) ==
  pretext \o <<".">> \o typeVersion \o <<".">>
    \o SelectSeq(reason, LAMBDA ch : ~IsSpace(ch))

\* The request of lines 284-296 for the cloudeventdata ev.
Request(ev) ==
  [body   |-> json_body(ev),
   header |-> (HEADER_CE_ID :> ev.uid)
                @@ (HEADER_CE_TYPE :> configureCeType(conf.Ce.AppendType, ev.reason))
                @@ (HEADER_CE_SOURCE :> conf.Ce.Source)
                @@ (HEADER_CE_SPECVERSION :> conf.Ce.SpecVersion)
                @@ (HEADER_CONTENT_TYPE :> CONTENT_TYPE)]

\* Lines 271-296: *ce is read now, through the pointer; http.NewRequest fails
\* (logged, continue) or the request is handed to client.Do.
Build(w) ==
  /\ panic = "none"
  /\ wk[w].pc = "build"
  /\ LET e == wk[w].cur
     IN  IF conf.EndpointOk
         THEN /\ wk' = [wk EXCEPT ![w].req = ce[e.ptr],
                                   ![w].http = Request(ce[e.ptr]),
                                   ![w].pc = "do"]
              /\ hist' = [hist EXCEPT ![e.ptr][e.n].reqs = @ + 1]
         ELSE /\ wk' = [wk EXCEPT ![w].logs = @ + 1, ![w].pc = "next",
                                   ![w].cur = None]
              /\ hist' = hist
  /\ UNCHANGED <<conf, filters, filterAllowAll, typeVersion, newest, newRet,
                 batch, ld, pc, k, ce, ret,
                 room, sawDeq, q, closed, started, panic>>

\* Mutant of IsSuccess: 200 is not a success.
IsSuccessAbove200(code) == code > 200 /\ code <= 299

\* The status check of line 306.
IsSuccess(code) == code >= 200 /\ code <= 299

\* strconv.Atoi on a header value (line 321): [ok, value].
Atoi(val) ==
  IF val = "5" THEN [ok |-> TRUE, value |-> 5]
  ELSE IF val = "0" THEN [ok |-> TRUE, value |-> 0]
  ELSE [ok |-> FALSE, value |-> 0]

\* retryAfter of lines 315-324.
RetryAfter(r) ==
  LET isThrottleError == r.code = 429 \/ r.code = 503
  IN  IF isThrottleError /\ r.retryAfter # "" /\ Atoi(r.retryAfter).ok
      THEN Atoi(r.retryAfter).value
      ELSE 0

\* Lines 298-331 for the response r, were RETRY_ENABLED retryEnabled: the
\* worker's state after them.
HandleWith(retryEnabled, worker, r) ==
  IF r.err
  THEN [worker EXCEPT !.res = r, !.logs = @ + 1]
  ELSE IF IsSuccess(r.code)
  THEN [worker EXCEPT !.res = r]
  ELSE IF retryEnabled
  THEN [worker EXCEPT !.res = r, !.retry = [after |-> RetryAfter(r)], !.logs = @ + 1]
  ELSE [worker EXCEPT !.res = r, !.logs = @ + 1]

\* Mutant of Handle: the error of client.Do is not logged.
HandleSilentOnTransport(worker, r) ==
  IF r.err
  THEN [worker EXCEPT !.res = r]
  ELSE HandleWith(RETRY_ENABLED, worker, r)

\* Lines 298-331 for the response r: the worker's state after them.
Handle(worker, r) == HandleWith(RETRY_ENABLED, worker, r)

\* client.Do returns (line 298) and the outcome is handled.
Respond(w) ==
  /\ panic = "none"
  /\ wk[w].pc = "do"
  /\ \E r \in Responses :
       wk' = [wk EXCEPT ![w] = [Handle(wk[w], r) EXCEPT
                                  !.pc = "next", !.cur = None, !.req = None,
                                  !.http = None]]
  /\ UNCHANGED <<conf, filters, filterAllowAll, typeVersion, newest, newRet,
                 batch, ld, pc, k, ce, ret,
                 room, sawDeq, hist, q, closed, started, panic>>

\* Mutant of LoopBack: after a logged failure the goroutine returns instead of
\* going on.
LoopBackReturnsOnError(w) ==
  /\ panic = "none"
  /\ wk[w].pc = "next"
  /\ wk' = [wk EXCEPT ![w] = IF wk[w].logs > 0 THEN IdleWorker("exited")
                                               ELSE IdleWorker("recv")]
  /\ UNCHANGED <<conf, filters, filterAllowAll, typeVersion, newest, newRet,
                 batch, ld, pc, k, ce, ret,
                 room, sawDeq, hist, q, closed, started, panic>>

\* continue, or the end of the loop body: back to the receive of line 269.
LoopBack(w) ==
  /\ panic = "none"
  /\ wk[w].pc = "next"
  /\ wk' = [wk EXCEPT ![w] = IdleWorker("recv")]
  /\ UNCHANGED <<conf, filters, filterAllowAll, typeVersion, newest, newRet,
                 batch, ld, pc, k, ce, ret,
                 room, sawDeq, hist, q, closed, started, panic>>

\* ------------------------------------------------------------ specifications

Next ==
  \/ Start
  \/ Shutdown
  \/ \E c \in Calls : PushLogsEnter(c)
  \/ \E c \in Calls : PushLogsIter(c)
  \/ \E c \in Calls : PushLogsSend(c)
  \/ \E c \in Calls : PushLogsSendPanic(c)
  \/ \E w \in Workers : Recv(w)
  \/ \E w \in Workers : Build(w)
  \/ \E w \in Workers : Respond(w)
  \/ \E w \in Workers : LoopBack(w)

Spec == Init /\ [][Next]_vars

WideSpec == InitWide /\ [][Next]_vars

\* One process: exporters are constructed, and one of them runs.
NextProc ==
  \/ \E cf \in ProcConfigs : NewExporter(cf)
  \/ conf # None /\ Start
  \/ conf # None /\ Shutdown
  \/ \E c \in Calls : conf # None /\ PushLogsEnter(c)
  \/ \E c \in Calls : conf # None /\ PushLogsIter(c)
  \/ \E c \in Calls : conf # None /\ PushLogsSend(c)
  \/ \E c \in Calls : conf # None /\ PushLogsSendPanic(c)
  \/ \E w \in Workers : conf # None /\ Recv(w)
  \/ \E w \in Workers : conf # None /\ Build(w)
  \/ \E w \in Workers : conf # None /\ Respond(w)
  \/ \E w \in Workers : conf # None /\ LoopBack(w)

ProcSpec == InitProc /\ [][NextProc]_vars

\* The Go scheduler runs every goroutine that can run: a worker that can take
\* its next step takes it, and so does a pushLogs call that has begun.  That
\* client.Do returns is the assumption that every HTTP call returns.
Fairness ==
  /\ \A w \in Workers :
       /\ WF_vars(Recv(w))
       /\ WF_vars(Build(w))
       /\ WF_vars(Respond(w))
       /\ WF_vars(LoopBack(w))
  /\ \A c \in Calls :
       /\ WF_vars(PushLogsIter(c))
       /\ WF_vars(PushLogsSend(c))
       /\ WF_vars(PushLogsSendPanic(c))

FairSpec == Spec /\ Fairness

\* ------------------------------------------------------------ claims

\* The entries sent so far: call c's n-th send.
Entries == {[ptr |-> c, n |-> n] : c \in Calls, n \in 1..MaxRecords}

Sent == {e \in Entries : e.n <= Len(hist[e.ptr])}

InQueue(e) == Cardinality({i \in 1..Len(q) : q[i] = e})

Holders(e) == {w \in Workers : wk[w].cur = e}

\* The log record an entry was built from.
SourceOf(e) == Flatten(ld[e.ptr])[e.n]

\* C1: with RETRY_ENABLED = false, every entry pushed onto the queue is either
\* still in the queue (once, and not yet received) or has been received exactly
\* once; at most one worker holds it, at most one HTTP request has been issued
\* for it, and an entry that has been received is never in the queue again.
C1_ExactlyOneWorker ==
  /\ ~RETRY_ENABLED
  /\ \A e \in Sent :
       /\ InQueue(e) + hist[e.ptr][e.n].recv = 1
       /\ hist[e.ptr][e.n].reqs <= hist[e.ptr][e.n].recv
       /\ hist[e.ptr][e.n].reqs <= 1
       /\ Cardinality(Holders(e)) <= hist[e.ptr][e.n].recv
  /\ \A i \in 1..Len(q) : q[i] \in Sent

\* C1 witness: both workers have a request in flight, for different entries,
\* while a third entry waits in the queue.
C1_Witness ==
  /\ \A w \in Workers : wk[w].pc = "do"
  /\ wk[1].cur # wk[2].cur
  /\ Len(q) > 0

\* C2: what a worker serializes for an entry is the log record the entry was
\* built from.
C2_SerializesSource ==
  \A w \in Workers :
    wk[w].pc = "do" => wk[w].req = EventOf(SourceOf(wk[w].cur))

\* The order in which the error text is to name missing attributes.
AttrOrder ==
  <<ATTR_EVENT_REASON, ATTR_EVENT_START_TIME, ATTR_EVENT_NAME, ATTR_EVENT_UID,
    ATTR_EVENT_NS, ATTR_EVENT_COUNT>>

Missing(lr) == RequiredAttrs \ DOMAIN lr.attrs

\* The error naming exactly the attributes of m, each once, in AttrOrder.
ExpectedError(m) ==
  LET names == SelectSeq(AttrOrder, LAMBDA a : a \in m)
  IN  [err  |-> TRUE,
       text |-> <<"Couldn't find ">>
                  \o Concat([i \in DOMAIN names |-> <<"{", names[i], "} ">>])
                  \o <<"attributes in the log">>]

\* The records call c iterates over, once it is past the filtering step.
Surviving(c) == Flatten(ld[c])

\* The places, in iteration order, of the surviving records that lack an
\* attribute.
Malformed(c) == {i \in 1..Len(Surviving(c)) : Missing(Surviving(c)[i]) # {}}

FirstMalformed(c) == CHOOSE i \in Malformed(c) : \A j \in Malformed(c) : i <= j

C4_NoReasonRecordDropped ==
  ~filterAllowAll =>
    \A c \in Calls :
      pc[c] # "idle" =>
        /\ \A i \in 1..Len(Surviving(c)) : Has(Surviving(c)[i], ATTR_EVENT_REASON)
        /\ (pc[c] = "done" /\ ret[c].err) =>
             ATTR_EVENT_REASON \notin Missing(Surviving(c)[FirstMalformed(c)])

\* A record the allow-list keeps: one without a reason, or with an allowed one.
Kept(lr) ==
  Has(lr, ATTR_EVENT_REASON) =>
    lr.attrs[ATTR_EVENT_REASON] \in {filters[i] : i \in 1..Len(filters)}

KeptScopes(rl) == {j \in DOMAIN rl : \E m \in DOMAIN rl[j] : Kept(rl[j][m])}

KeptResources(b) == {i \in DOMAIN b : KeptScopes(b[i]) # {}}

\* The n-th smallest number of S.
NthOf(S, n) == CHOOSE x \in S : Cardinality({y \in S : y < x}) = n - 1

\* C5: with the filter not allow-all, after the filtering step the batch holds
\* exactly the kept records, in their order and groups: a record with a reason
\* remains if and only if its reason is an allowed value, a scope group remains
\* if and only if a record of it remains, a resource group if and only if a
\* scope group of it remains.
C5_FilterKeepsAllowed ==
  ~filterAllowAll =>
    \A c \in Calls :
      pc[c] # "idle" =>
        LET b == batch[c]
            f == ld[c]
        IN  /\ Len(f) = Cardinality(KeptResources(b))
            /\ \A p \in 1..Len(f) :
                 LET rl == b[NthOf(KeptResources(b), p)]
                 IN  /\ Len(f[p]) = Cardinality(KeptScopes(rl))
                     /\ Len(f[p]) > 0
                     /\ \A r \in 1..Len(f[p]) :
                          /\ f[p][r] = SelectSeq(rl[NthOf(KeptScopes(rl), r)], Kept)
                          /\ Len(f[p][r]) > 0
            /\ \A i \in 1..Len(Surviving(c)) : Kept(Surviving(c)[i])

\* C5 witness: the filtering step has removed a record, a scope group and a
\* resource group of a batch, and has left others.
C5_Witness ==
  /\ ~filterAllowAll
  /\ \E c \in Calls :
       /\ pc[c] # "idle"
       /\ Len(ld[c]) > 0
       /\ Len(ld[c]) < Len(batch[c])
       /\ Len(Surviving(c)) < Len(Flatten(batch[c]))
       /\ \E p \in 1..Len(ld[c]) :
            Len(ld[c][p]) < Len(batch[c][NthOf(KeptResources(batch[c]), p)])

\* The events of the records before place f of call c's iteration order.
EventsBefore(c, f) == {EventOf(Surviving(c)[i]) : i \in 1..(f - 1)}

\* C6: a call whose batch has a surviving record that lacks an attribute never
\* sends an entry for the first such record nor for a record after it; it
\* returns the error when it reaches that record, having sent one entry for
\* each record before it and none after; and what is in the queue, held by a
\* worker or serialized for that call is of the records before it.
C6_FailFast ==
  \A c \in Calls :
    (pc[c] # "idle" /\ Malformed(c) # {}) =>
      LET f == FirstMalformed(c)
      IN  /\ Len(hist[c]) < f
          /\ k[c] <= f
          /\ pc[c] = "send" => k[c] < f
          /\ \A i \in 1..Len(q) : q[i].ptr = c => q[i].n < f
          /\ \A w \in Workers :
               IF wk[w].cur = None THEN TRUE
               ELSE wk[w].cur.ptr = c =>
                      /\ wk[w].cur.n < f
                      /\ wk[w].pc = "do" => wk[w].req \in EventsBefore(c, f)
          /\ pc[c] = "done" =>
               /\ ret[c] = MissingError(Surviving(c)[f])
               /\ k[c] = f
               /\ Len(hist[c]) = f - 1

\* C6 witness: a call has returned the error of its second record while the
\* entry of its first record is being delivered.
C6_Witness ==
  \E c \in Calls :
    /\ pc[c] = "done"
    /\ ret[c].err
    /\ FirstMalformed(c) = 2
    /\ Len(Surviving(c)) > 2
    /\ \E w \in Workers : wk[w].pc = "do" /\ wk[w].cur = [ptr |-> c, n |-> 1]

\* The surviving records of call c that lack no attribute.
WellFormed(c) == {i \in 1..Len(Surviving(c)) : Missing(Surviving(c)[i]) = {}}

\* The number of entries call c sends before it returns: one per surviving
\* record before the first that lacks an attribute.
ToPush(c) == IF Malformed(c) = {} THEN Len(Surviving(c)) ELSE FirstMalformed(c) - 1

\* C7 as stated: the queue never holds more than CHAN_SZ entries, and a call
\* whose batch has more surviving well-formed records than there were free
\* slots and idle workers when it began has not returned unless a worker has
\* received an entry since.
C7_BlocksOnWellFormedCount ==
  /\ Len(q) <= CHAN_SZ
  /\ \A c \in Calls :
       (pc[c] = "done" /\ Cardinality(WellFormed(c)) > room[c]) => sawDeq[c]

\* C7 as amended: the queue never holds more than CHAN_SZ entries, and a call
\* that has more surviving records before its first malformed one (all of them
\* when none is malformed) than there were free slots and idle workers when it
\* began has not returned unless a worker has received an entry since.
C7_BlocksOnPushCount ==
  /\ Len(q) <= CHAN_SZ
  /\ \A c \in Calls :
       (pc[c] = "done" /\ ToPush(c) > room[c]) => sawDeq[c]

\* C7 witness: a call with more records to send than there was room has
\* returned nil, after a worker received an entry.
C7_Witness ==
  \E c \in Calls :
    /\ pc[c] = "done"
    /\ ret[c] = Nil
    /\ ToPush(c) > room[c]
    /\ Len(hist[c]) = ToPush(c)
    /\ sawDeq[c]

\* C8: the queue is never closed twice, and no call is at, or gets past, the
\* send of line 260 once the queue is closed.
C8_ClosedOnceNoSendAfter ==
  /\ panic = "none"
  /\ closed => \A c \in Calls : pc[c] # "send"

\* C9: once the queue is closed with the workers running, eventually the queue
\* is empty and every worker has left its receive loop; and no worker has left
\* it while the queue is open or holds an entry.
C9_DrainsAndExits ==
  /\ [](\A w \in Workers : wk[w].pc = "exited" => (closed /\ Len(q) = 0))
  /\ (closed /\ started = "yes") ~> (Len(q) = 0 /\ \A w \in Workers : wk[w].pc = "exited")

\* C10: when a worker has handled a response, it has logged no error and made
\* no retry signal if the status is in 200..299, and otherwise (429 and 503
\* included) it has logged exactly one error and made no retry signal; and no
\* entry has had a second request.
C10_StatusPolicy ==
  /\ \A w \in Workers :
       (wk[w].pc = "next" /\ wk[w].res # None) =>
         (~wk[w].res.err =>
            IF wk[w].res.code \in 200..299
            THEN wk[w].logs = 0 /\ wk[w].retry = None
            ELSE wk[w].logs = 1 /\ wk[w].retry = None)
  /\ \A e \in Sent : hist[e.ptr][e.n].reqs <= 1

\* C10 witness: a worker has handled a 503 with Retry-After: 5 and logged one
\* error, the other a 201 and logged none.
C10_Witness ==
  \E w, v \in Workers :
    /\ wk[w].pc = "next" /\ wk[w].res = Resp(503, "5") /\ wk[w].logs = 1
    /\ wk[v].pc = "next" /\ wk[v].res = Resp(201, "") /\ wk[v].logs = 0

\* C11: a worker that has dealt with a failure of http.NewRequest or with an
\* error of client.Do has logged exactly one error and made no retry signal;
\* the entry is not in the queue again and has had at most one request (none
\* when the request could not be built); and the error of client.Do is handled
\* so whatever RETRY_ENABLED is.
C11_TransportFailureTerminal ==
  /\ \A w \in Workers :
       (wk[w].pc = "next" /\ (wk[w].res = None \/ wk[w].res.err)) =>
         (wk[w].logs = 1 /\ wk[w].retry = None)
  /\ \A e \in Sent :
       /\ hist[e.ptr][e.n].reqs <= 1
       /\ ~conf.EndpointOk => hist[e.ptr][e.n].reqs = 0
       /\ hist[e.ptr][e.n].recv = 1 => InQueue(e) = 0
  /\ \A flag \in BOOLEAN :
       LET after == HandleWith(flag, IdleWorker("do"), TransportError)
       IN  after.logs = 1 /\ after.retry = None

\* C11 witness: a worker has logged the error of client.Do for an entry that
\* had one request, and has not yet gone back to the receive.
C11_Witness ==
  \E w \in Workers :
    /\ wk[w].pc = "next"
    /\ wk[w].res = TransportError
    /\ wk[w].logs = 1
    /\ \E e \in Sent : hist[e.ptr][e.n].reqs = 1 /\ InQueue(e) = 0

\* The entries of a filter expression that name a reason.
ValidEntries(expr) == SelectSeq(Split(expr, "|"), LAMBDA f : f # <<>>)

\* C12: when the filter expression given to the last call of newExporter has
\* no valid entry (it is empty, or every entry of its split is empty, or the
\* split has no entry at all), the call returned an error and no exporter.
C12_InvalidFilterRejected ==
  (newRet # None
     /\ (FilterErr(newRet.cf) \/ ValidEntries(newRet.cf.Filter) = <<>>))
    => (newRet.err /\ ~newRet.exporter)

\* An entry has been received and dealt with: no worker holds it any more.
Accounted(e) ==
  /\ e \in Sent
  /\ hist[e.ptr][e.n].recv = 1
  /\ Holders(e) = {}

\* C13: with the workers launched, every call that has begun eventually
\* returns, and every entry a call has sent is eventually received by a worker
\* and dealt with (a success, or one logged failure).
C13_NoEventSilentlyDropped ==
  /\ \A c \in Calls :
       (started = "yes" /\ pc[c] \in {"loop", "send"}) ~> (pc[c] = "done")
  /\ \A e \in Entries :
       (started = "yes" /\ e \in Sent) ~> Accounted(e)

\* What pushLogs returns as a function of the batch b and the filter
\* configuration (the allow-list and the allow-all mode) alone: the records are
\* taken in iteration order, those with a reason the configuration does not
\* allow are left out, and the first one that lacks an attribute gives the
\* error; nil when there is none.
ResultOf(b, allowList, allowAll) ==
  LET allowed  == {allowList[i] : i \in 1..Len(allowList)}
      passes(lr) == \/ allowAll
                    \/ ~Has(lr, ATTR_EVENT_REASON)
                    \/ lr.attrs[ATTR_EVENT_REASON] \in allowed
      records  == SelectSeq(Flatten(b), passes)
      bad      == {i \in 1..Len(records) : Missing(records[i]) # {}}
  IN  IF bad = {} THEN Nil
      ELSE ExpectedError(Missing(records[CHOOSE i \in bad : \A j \in bad : i <= j]))

\* C14: what a call has returned is what the batch it was given and the filter
\* configuration determine, whatever the HTTP outcomes and the steps of the
\* workers and of the other calls have been.
C14_ReturnIgnoresDelivery ==
  \A c \in Calls :
    pc[c] = "done" => ret[c] = ResultOf(batch[c], filters, filterAllowAll)

\* C14 witness: a call has sent an entry and returned nil, and a worker has
\* logged a delivery failure.
C14_Witness ==
  \E c \in Calls :
    /\ pc[c] = "done"
    /\ ret[c] = Nil
    /\ Len(hist[c]) > 0
    /\ \A d \in Calls : d # c => Len(hist[d]) = 0
    /\ \E w \in Workers : wk[w].pc = "next" /\ wk[w].logs = 1

\* The batch has an empty group, or a record without the reason attribute.
HasEmptyGroup(b) ==
  \E i \in DOMAIN b : b[i] = <<>> \/ \E j \in DOMAIN b[i] : b[i][j] = <<>>

HasNoReasonRecord(b) ==
  \E i \in 1..Len(Flatten(b)) : ~Has(Flatten(b)[i], ATTR_EVENT_REASON)

\* C15: when the filter expression is exactly "*", a call that has gone through
\* its filtering step has the batch it was given, unchanged: every resource
\* group, scope group and record, the empty groups and the records without a
\* reason too.
C15_WildcardRemovesNothing ==
  \A c \in Calls :
    (conf.Filter = <<"*">> /\ pc[c] # "idle") => ld[c] = batch[c]

\* C15 witness: under "*", a call is past the filtering step with a batch that
\* has empty groups and a record without a reason.
C15_Witness ==
  \E c \in Calls :
    /\ conf.Filter = <<"*">>
    /\ pc[c] = "loop"
    /\ k[c] = 1
    /\ HasEmptyGroup(batch[c])
    /\ HasNoReasonRecord(batch[c])
    /\ ld[c] = batch[c]

\* A reason without its white-space characters, the others in order.
WithoutSpace(reason) ==
  SelectSeq(reason, LAMBDA ch : ch \notin {" ", "\t", "\n", "\r", "\f"})

\* C16: the Ce-Type header of a request in flight is the exporter's configured
\* prefix, ".", "v" with the first character of the exporter's configured spec
\* version, ".", and the reason of the delivered event without its white space.
C16_CeTypeOfOwnSpecVersion ==
  \A w \in Workers :
    (wk[w].pc = "do" /\ Len(conf.Ce.SpecVersion) > 0) =>
      wk[w].http.header[HEADER_CE_TYPE] =
        conf.Ce.AppendType \o <<".">> \o <<"v", conf.Ce.SpecVersion[1]>>
          \o <<".">> \o WithoutSpace(wk[w].req.reason)

\* Reading JSON text (RFC 8259) given as a sequence of atoms: the result is
\* [ok, val, next], next the place after what was read.
JsonInvalid == [ok |-> FALSE, val |-> <<>>, next |-> 0]

\* A JSON string whose opening quote is right before place i: it ends at the
\* next quote; a backslash must be followed by a character it can escape (of
\* the atoms of the inputs, a quote or a backslash); a control character must
\* not appear.
RECURSIVE JsonString(_, _, _)
JsonString(s, i, acc) ==
  IF i > Len(s) THEN JsonInvalid
  ELSE IF s[i] = "\"" THEN [ok |-> TRUE, val |-> acc, next |-> i + 1]
  ELSE IF s[i] = "\\"
  THEN IF i + 1 <= Len(s) /\ s[i + 1] \in {"\"", "\\"}
       THEN JsonString(s, i + 2, Append(acc, s[i + 1]))
       ELSE JsonInvalid
  ELSE IF s[i] \in {"\n", "\t", "\r", "\f"} THEN JsonInvalid
  ELSE JsonString(s, i + 1, Append(acc, s[i]))

\* A JSON value at place i: a string, or a number in decimal.
JsonValue(s, i) ==
  IF i > Len(s) THEN JsonInvalid
  ELSE IF s[i] = "\""
  THEN LET str == JsonString(s, i + 1, <<>>)
       IN  IF str.ok
           THEN [ok |-> TRUE, val |-> [kind |-> "string", is |-> str.val],
                 next |-> str.next]
           ELSE JsonInvalid
  ELSE IF \E n \in 0..9 : s[i] = ToString(n)
  THEN [ok |-> TRUE, val |-> [kind |-> "number", is |-> <<s[i]>>], next |-> i + 1]
  ELSE JsonInvalid

\* The members of a JSON object from place i to the closing brace, which must
\* be the last atom: the set of [name, val].
RECURSIVE JsonMembers(_, _, _)
JsonMembers(s, i, members) ==
  IF i > Len(s) \/ s[i] # "\"" THEN JsonInvalid
  ELSE LET name == JsonString(s, i + 1, <<>>)
       IN  IF ~name.ok \/ name.next > Len(s) \/ s[name.next] # ":"
           THEN JsonInvalid
           ELSE LET v == JsonValue(s, name.next + 1)
                IN  IF ~v.ok \/ v.next > Len(s) THEN JsonInvalid
                    ELSE LET all == Append(members, [name |-> name.val, val |-> v.val])
                         IN  IF s[v.next] = ","
                             THEN JsonMembers(s, v.next + 1, all)
                             ELSE IF s[v.next] = "}" /\ v.next = Len(s)
                             THEN [ok |-> TRUE, val |-> all, next |-> v.next + 1]
                             ELSE JsonInvalid

JsonObject(s) ==
  IF Len(s) < 2 \/ s[1] # "{" THEN JsonInvalid ELSE JsonMembers(s, 2, <<>>)

\* The object the claim expects for the cloudeventdata ev.
ExpectedObject(ev) ==
  { [name |-> <<"reason">>,     val |-> [kind |-> "string", is |-> ev.reason]],
    [name |-> <<"start_time">>, val |-> [kind |-> "string", is |-> ev.startTime]],
    [name |-> <<"name">>,       val |-> [kind |-> "string", is |-> ev.name]],
    [name |-> <<"namespace">>,  val |-> [kind |-> "string", is |-> ev.namespace]],
    [name |-> <<"count">>,      val |-> [kind |-> "number", is |-> <<ToString(ev.count)>>]],
    [name |-> <<"message">>,    val |-> [kind |-> "string", is |-> ev.message]] }

QuotesOf(s) == {i \in DOMAIN s : s[i] = "\""}

\* What the body holds between the quotes of its last member, for a message
\* whose quotes have each become two characters.
MessagePart(body, message) ==
  SubSeq(body, Len(body) - 1 - (Len(message) + Cardinality(QuotesOf(message))),
         Len(body) - 2)

\* C17: the body of a request in flight is a JSON object whose members are
\* exactly reason, start_time, name, namespace, count and message with the
\* values of the delivered event, and each quote of the message is in the body
\* with a backslash before it.
C17_BodyIsTheEventAsJson ==
  \A w \in Workers :
    wk[w].pc = "do" =>
      LET ev   == wk[w].req
          body == wk[w].http.body
          read == JsonObject(body)
          part == MessagePart(body, ev.message)
      IN  /\ read.ok
          /\ Len(read.val) = 6
          /\ {read.val[i] : i \in 1..Len(read.val)} = ExpectedObject(ev)
          /\ Cardinality(QuotesOf(part)) = Cardinality(QuotesOf(ev.message))
          /\ \A i \in QuotesOf(part) : i > 1 /\ part[i - 1] = "\\"

\* C18: after any sequence of newExporter calls, the filter state pushLogs
\* reads is that of the configuration of the exporter constructed last:
\* allow-all is on if and only if its filter expression is exactly "*", and the
\* allow-list names the entries of that expression split on "|".
C18_FilterStateOfNewestExporter ==
  newest # None =>
    /\ filterAllowAll <=> (newest.Filter = <<"*">>)
    /\ SelectSeq(filters, LAMBDA f : f # <<>>) = ValidEntries(newest.Filter)

\* The workers whose goroutine is running exportMessage.
Live == {w \in Workers : wk[w].pc \in {"recv", "build", "do", "next"}}

\* C19: from start until the queue is closed exactly CHAN_SZ workers are live
\* and the process has not panicked, no worker runs before start, at most
\* CHAN_SZ requests are in flight, and a worker that has dealt with an outcome,
\* a failure included, goes nowhere but back to the receive.
C19_FixedWorkerPool ==
  /\ [](/\ (started = "yes" /\ ~closed) =>
             (panic = "none" /\ Cardinality(Live) = CHAN_SZ)
        /\ started # "yes" => Live = {}
        /\ Cardinality({w \in Workers : wk[w].pc = "do"}) <= CHAN_SZ)
  /\ [][\A w \in Workers :
          wk[w].pc = "next" => wk'[w].pc \in {"next", "recv"}]_vars

\* C19 witness: with the queue open, one worker has dealt with the first entry
\* of a call and is back at the receive, while the other has logged a 503 for
\* another entry and has not exited.
C19_Witness ==
  /\ started = "yes"
  /\ ~closed
  /\ \E w, v \in Workers :
       /\ wk[w].pc = "recv"
       /\ wk[v].pc = "next" /\ wk[v].res = Resp(503, "5") /\ wk[v].logs = 1
       /\ \E e \in Sent : hist[e.ptr][e.n].reqs = 1 /\ Holders(e) = {} /\ e.n = 1
       /\ Cardinality({e \in Sent : hist[e.ptr][e.n].reqs = 1}) = 2

====
